---------------------------- MODULE Spec2Model ----------------------------
(***************************************************************************)
(* A model of gitkit: the git command parser (git.go), the repository      *)
(* manager (git.go, config.go), the SSH server control surface and the     *)
(* per-session request loop (ssh.go).                                       *)
(*                                                                          *)
(* Strings are sequences of one-character strings, so that the regular     *)
(* expression, path.Clean, HasSuffix and TrimPrefix are computed on        *)
(* characters as the code computes them.                                    *)
(***************************************************************************)
EXTENDS Integers, Sequences, FiniteSets, TLC

VARIABLES
  cmdIn,      \* parser run: the string handed to ParseGitCommand
  parsed,     \* parser run: the (*GitCommand, error) it returned
  parsePc,    \* parser run: "input", "parsed" or "created"; "off" in other runs
  objects,    \* file system: the set of existing <repo>/objects directories
  initCalls,  \* the InitRepo calls made, in order: [name, ok]
  listener,   \* SSH.listener: 0 is nil, n > 0 is the n-th listener bound
  open,       \* the listeners that are bound and not closed
  nextId,     \* the number of listeners net.Listen has bound so far
  keyFile,    \* KeyDir: the state of each host key pair
  sshconfig,  \* SSH.sshconfig: whether setup has stored a server config
  dirExists,  \* whether Config.Dir exists
  pc,         \* each calling goroutine's position
  local,      \* each goroutine's copy of the listener it is working on
  pend,       \* each goroutine's return value computed before a deferred call
  hist,       \* the completed calls, in order of completion: [t, op, val]
  conns,      \* the number of connections Serve has accepted
  seen,       \* the values s.listener has held since the running Serve began
  sess,       \* each session channel's goroutine, child process and output
  authorizeSet, \* whether SSH.Authorize is registered
  autoCreate, \* Config.AutoCreate
  sconn,      \* each accepted connection's handshake result
  hookFs,     \* the hooks directories of the repositories and the hook settings
  recv,       \* a Receiver.Handle call: its input, position and effects
  force       \* an IsForcePush call: the commit graph, the update and the answer

parseVars == <<cmdIn, parsed, parsePc>>
fsVars == <<objects, initCalls>>
ctlVars == <<listener, open, nextId, keyFile, sshconfig, dirExists, pc, local,
             pend, hist, conns, seen>>

sessVars == <<sess, authorizeSet, autoCreate>>

auxVars == <<sconn, hookFs, recv, force>>

vars == <<parseVars, fsVars, ctlVars, sessVars, auxVars>>

(***************************************************************************)
(* Strings                                                                  *)
(***************************************************************************)
StartsWith(s, p) == Len(p) <= Len(s) /\ SubSeq(s, 1, Len(p)) = p

EndsWith(s, p) == Len(p) <= Len(s) /\ SubSeq(s, Len(s) - Len(p) + 1, Len(s)) = p

Drop(s, n) == SubSeq(s, n + 1, Len(s))

Slash == "/"
Dot == "."
Quote == "'"

DotGit == <<".", "g", "i", "t">>
ObjectsName == <<"o", "b", "j", "e", "c", "t", "s">>

(***************************************************************************)
(* path.Clean and path.Join of the Go standard library, as called by       *)
(* ParseGitCommand, InitRepo and RepoExists.                                *)
(***************************************************************************)
\* lazybuf backtracking of the ".." case: out.w--, then back to the last "/".
RECURSIVE CleanBack(_, _, _)
CleanBack(out, w, dotdot) ==
  IF w > dotdot /\ out[w + 1] # Slash
  THEN CleanBack(out, w - 1, dotdot)
  ELSE SubSeq(out, 1, w)

\* the end (exclusive, 0-based) of the path element that starts at r
RECURSIVE ElemEnd(_, _)
ElemEnd(p, r) ==
  IF r < Len(p) /\ p[r + 1] # Slash THEN ElemEnd(p, r + 1) ELSE r

\* the main loop of path.Clean; r is the 0-based read index
RECURSIVE CleanLoop(_, _, _, _, _)
CleanLoop(p, r, out, dotdot, rooted) ==
  LET n == Len(p) IN
  IF r >= n THEN out
  ELSE IF p[r + 1] = Slash
       THEN CleanLoop(p, r + 1, out, dotdot, rooted)
  ELSE IF p[r + 1] = Dot /\ (r + 1 = n \/ p[r + 2] = Slash)
       THEN CleanLoop(p, r + 1, out, dotdot, rooted)
  ELSE IF p[r + 1] = Dot /\ p[r + 2] = Dot /\ (r + 2 = n \/ p[r + 3] = Slash)
       THEN IF Len(out) > dotdot
            THEN CleanLoop(p, r + 2, CleanBack(out, Len(out) - 1, dotdot),
                           dotdot, rooted)
            ELSE IF ~rooted
                 THEN LET o2 == (IF Len(out) > 0 THEN Append(out, Slash) ELSE out)
                                  \o <<Dot, Dot>>
                      IN CleanLoop(p, r + 2, o2, Len(o2), rooted)
                 ELSE CleanLoop(p, r + 2, out, dotdot, rooted)
  ELSE LET sep == IF (rooted /\ Len(out) # 1) \/ (~rooted /\ Len(out) # 0)
                  THEN Append(out, Slash) ELSE out
           e == ElemEnd(p, r)
       IN CleanLoop(p, e, sep \o SubSeq(p, r + 1, e), dotdot, rooted)

Clean(p) ==
  IF p = <<>> THEN <<Dot>>
  ELSE LET rooted == p[1] = Slash
           out == IF rooted
                  THEN CleanLoop(p, 1, <<Slash>>, 1, TRUE)
                  ELSE CleanLoop(p, 0, <<>>, 0, FALSE)
       IN IF out = <<>> THEN <<Dot>> ELSE out

\* path.Join(a, b): empty elements are ignored, the rest joined by "/" and cleaned
Join(a, b) ==
  IF a = <<>> /\ b = <<>> THEN <<>>
  ELSE IF a = <<>> THEN Clean(b)
  ELSE IF b = <<>> THEN Clean(a)
  ELSE Clean(a \o <<Slash>> \o b)

\* strings.TrimPrefix / strings.TrimSuffix
TrimPrefix(s, p) == IF StartsWith(s, p) THEN Drop(s, Len(p)) ELSE s

TrimSuffix(s, p) == IF EndsWith(s, p) THEN SubSeq(s, 1, Len(s) - Len(p)) ELSE s


(***************************************************************************)
(* Configuration (config.go)                                                *)
(***************************************************************************)
\* Config.Dir, the directory that contains the repositories
Dir == <<"/", "r">>

(***************************************************************************)
(* Command parser (git.go)                                                  *)
(***************************************************************************)
Git == <<"g", "i", "t">>
UploadPack == <<"u", "p", "l", "o", "a", "d", "-", "p", "a", "c", "k">>
UploadArchive == <<"u", "p", "l", "o", "a", "d", "-", "a", "r", "c", "h", "i", "v", "e">>
ReceivePack == <<"r", "e", "c", "e", "i", "v", "e", "-", "p", "a", "c", "k">>

\* the three alternatives of gitCommandRegex after "git" and the separator
VerbNames == {UploadPack, UploadArchive, ReceivePack}

\* the character class [-|\s] of gitCommandRegex: "-", "|" and RE2's \s
SepClass == {"-", "|", " ", "\t", "\n", "\f", "\r"}

\* the alternative of group 1 that cmd starts with, anchored at ^
MatchVerb(cmd) ==
  {v \in VerbNames :
     /\ Len(cmd) >= 4
     /\ StartsWith(cmd, Git)
     /\ cmd[4] \in SepClass
     /\ StartsWith(Drop(cmd, 4), v)}

\* gitCommandRegex.FindAllStringSubmatch(cmd, 1): the set of <<group1, group2>>
\* (empty or one match). "." does not match "\n"; "$" is the end of the text.
gitCommandRegex(cmd) ==
  {<<SubSeq(cmd, 1, 4 + Len(v)), SubSeq(cmd, 4 + Len(v) + 3, Len(cmd) - 1)>> :
     v \in {w \in MatchVerb(cmd) :
              LET h == 4 + Len(w) IN
              /\ Len(cmd) >= h + 3
              /\ cmd[h + 1] = " "
              /\ cmd[h + 2] = Quote
              /\ cmd[Len(cmd)] = Quote
              /\ \A i \in (h + 3)..(Len(cmd) - 1) : cmd[i] # "\n"}}

ErrInvalidGitCommand == "invalid git command"

\* the result variable before ParseGitCommand has been called
NoResult == [err |-> "not called", Command |-> <<>>, Repo |-> <<>>, Original |-> <<>>]

\* ParseGitCommand with the path cleaned as given, not joined onto "/" first
ParseGitCommandUnrooted(cmd) ==
  LET matches == gitCommandRegex(cmd) IN
  IF matches = {}
  THEN [err |-> ErrInvalidGitCommand, Command |-> <<>>, Repo |-> <<>>, Original |-> <<>>]
  ELSE LET m == CHOOSE x \in matches : TRUE
           safeRepo == TrimPrefix(Clean(m[2]), <<Slash>>)
       IN [err |-> "", Command |-> m[1], Repo |-> safeRepo, Original |-> cmd]

\* ParseGitCommand: (*GitCommand, error) as one record; err = "" is a nil error
ParseGitCommand(cmd) ==
  LET matches == gitCommandRegex(cmd) IN
  IF matches = {}
  THEN [err |-> ErrInvalidGitCommand, Command |-> <<>>, Repo |-> <<>>, Original |-> <<>>]
  ELSE LET m == CHOOSE x \in matches : TRUE
           safeRepo == TrimPrefix(Clean(Join(<<Slash>>, m[2])), <<Slash>>)
       IN [err |-> "", Command |-> m[1], Repo |-> safeRepo, Original |-> cmd]

(***************************************************************************)
(* Repository manager (git.go)                                              *)
(***************************************************************************)
\* RepoExists(p): os.Stat(path.Join(p, "objects")) succeeds
RepoExists(p) == Join(p, ObjectsName) \in objects

\* the fullPath InitRepo hands to "git init --bare"
InitRepoPath(name) ==
  LET fullPath == Join(Dir, name) IN
  IF EndsWith(fullPath, DotGit) THEN fullPath ELSE fullPath \o DotGit

\* InitRepo(name, config); gitOk is whether "git init" exits with status 0.
\* The hook installation of lines 22-24 is in InitRepoHooks; the servers of
\* the other runs have AutoHooks off.
InitRepo(name, gitOk) ==
  /\ initCalls' = Append(initCalls, [name |-> name, ok |-> gitOk])
  /\ objects' = IF gitOk
                THEN objects \cup {Join(InitRepoPath(name), ObjectsName)}
                ELSE objects

(***************************************************************************)
(* Session state (ssh.go, handleConnection)                                 *)
(***************************************************************************)
\* the session channels of the run, each served by its own goroutine
Sessions == {"s1", "s2"}

\* a session channel that has been accepted and has received no request.
\* keyID is the parameter of handleConnection, authKey the key id given to
\* Authorize, envKey the value of GITKIT_KEY in the child's environment, req
\* and payload the request being handled.
NewSession ==
  [pc |-> "wait", gitcmd |-> NoResult, authRes |-> "none",
   init |-> "none", child |-> "none", exit |-> 0,
   outN |-> 0, errN |-> 0, outLeft |-> 0, errLeft |-> 0,
   outPipe |-> 0, errPipe |-> 0, chan |-> <<>>,
   keyID |-> "", authKey |-> "none", envKey |-> "none",
   req |-> "none", payload |-> <<>>]

\* no connection has been accepted
SconnIdle == sconn = <<>>

\* no hooks directory is looked at
HookFsIdle == hookFs = <<>>

\* no Receiver.Handle call is made
RecvIdle == recv = <<>>

\* no IsForcePush call is made
ForceIdle == force = <<>>

\* the sessions in a run that does not use them
SessIdle ==
  /\ sess = [s \in Sessions |-> NewSession]
  /\ authorizeSet = FALSE
  /\ autoCreate = FALSE

(***************************************************************************)
(* Server control surface (ssh.go): Listen, Serve, Stop, Address            *)
(***************************************************************************)
\* the goroutines that call the server's methods
Threads == {"main", "srv"}

\* the most calls recorded in one run, listeners bound and connections accepted
MaxCalls == 5
MaxListens == 2
MaxConns == 2

KeyTypes == {"rsa", "ed25519"}

ErrAlreadyStarted == "server has already been started"
ErrNoListener == "cannot call Serve() before Listen()"

\* a completed call: val is the error text ("nil" for no error) or, for
\* Address, "" or "addr" with the listener whose address it is in addr
Ret(t, op, val, addr) == [t |-> t, op |-> op, val |-> val, addr |-> addr]

\* a host key pair in KeyDir: the private key file (absent, partial: created
\* and not completely written, or valid) and its mode, the .pub file and its
\* mode, and whether storeKey has written the pair, and has done so after a
\* Listen had already succeeded
NoKey == [priv |-> "absent", mode |-> "none", pub |-> "absent", pubMode |-> "none",
          stored |-> FALSE, late |-> FALSE]

\* a pair that a complete storeKey of an earlier run has left
StoredKey == [priv |-> "valid", mode |-> "0600", pub |-> "written",
              pubMode |-> "0644", stored |-> FALSE, late |-> FALSE]

\* the server after NewSSH in a run that does not use it
CtlIdle ==
  /\ listener = 0
  /\ open = {}
  /\ nextId = 0
  /\ keyFile = [k \in KeyTypes |-> NoKey]
  /\ sshconfig = FALSE
  /\ dirExists = FALSE
  /\ pc = [t \in Threads |-> "idle"]
  /\ local = [t \in Threads |-> 0]
  /\ pend = [t \in Threads |-> "nil"]
  /\ hist = <<>>
  /\ conns = 0
  /\ seen = {0}

\* storeKey on the pair f whose private key file is absent, called after a
\* Listen had succeeded or not: the outcomes [f, ok]. It fails before
\* os.Create and leaves nothing; or at os.Chmod and leaves an empty private
\* key file with the mode of os.Create (0666 less the umask, here 022); or at
\* pem.Encode and leaves a partial file of mode 0600; or at the WriteFile of
\* the public key and leaves the private key alone; or it writes both files.
\* Modes are those asked for, the umask taking no bit of 0600 or 0644 away.
storeKey(f, after) ==
  LET w == [f EXCEPT !.stored = TRUE, !.late = after] IN
  {[f |-> f, ok |-> FALSE],
   [f |-> [w EXCEPT !.priv = "partial", !.mode = "0644"], ok |-> FALSE],
   [f |-> [w EXCEPT !.priv = "partial", !.mode = "0600"], ok |-> FALSE],
   [f |-> [w EXCEPT !.priv = "valid", !.mode = "0600"], ok |-> FALSE],
   [f |-> [w EXCEPT !.priv = "valid", !.mode = "0600", !.pub = "written",
                    !.pubMode = "0644"], ok |-> TRUE]}

\* genRsaKey / genEd25519Key on the pair f: nothing is done when the private
\* key file exists; otherwise the key is generated and storeKey is called
GenKey(f, after) ==
  IF f.priv # "absent" THEN {[f |-> f, ok |-> TRUE]} ELSE storeKey(f, after)

\* SSH.setup: both keys are generated if missing, then both private key
\* files are loaded; the set of outcomes [keys, ok]
setup(kf, after) ==
  {[keys |-> [kf EXCEPT !["rsa"] = r.f], ok |-> FALSE] :
      r \in {x \in GenKey(kf["rsa"], after) : ~x.ok}}
  \cup
  UNION {
    {[keys |-> [kf EXCEPT !["rsa"] = r.f, !["ed25519"] = e.f],
      ok |-> e.ok /\ r.f.priv = "valid" /\ e.f.priv = "valid"] :
        e \in GenKey(kf["ed25519"], after)} :
    r \in {x \in GenKey(kf["rsa"], after) : x.ok}}

\* Config.Setup: os.Mkdir(c.Dir) when os.Stat fails; the outcomes [dir, ok].
\* AutoHooks is off in these runs, so setupHooks is not called.
ConfigSetup(exists) ==
  IF exists THEN {[dir |-> TRUE, ok |-> TRUE]}
  ELSE {[dir |-> TRUE, ok |-> TRUE], [dir |-> FALSE, ok |-> FALSE]}

\* a panic in any goroutine ends the process
Crashed == \E t \in Threads : pc[t] = "panicked"

\* a write of v to s.listener
WriteSlot(v) ==
  /\ listener' = v
  /\ seen' = seen \cup {v}

\* an unsynchronized read of s.listener by goroutine t inside the accept
\* loop: the value held now, or one held earlier since Serve began when
\* another goroutine has written the field meanwhile (a data race). A torn
\* read behaves as one of these: a typed nil listener makes Accept return
\* an error, a nil interface makes the call panic.
ReadSlot(t) == seen

Done(t, op, val) == hist' = Append(hist, Ret(t, op, val, 0))

\* a Listen call has returned nil
ListenSucceeded == \E i \in 1..Len(hist) : hist[i].op = "Listen" /\ hist[i].val = "nil"

\* Listen, lines 355-361: setup() and config.Setup()
ListenSetup(t) ==
  /\ pc[t] = "idle"
  /\ ~Crashed
  /\ UNCHANGED <<parseVars, fsVars, sessVars, auxVars>>
  /\ Len(hist) < MaxCalls
  /\ \E k \in setup(keyFile, ListenSucceeded) :
       /\ keyFile' = k.keys
       /\ IF ~k.ok
          THEN /\ Done(t, "Listen", "setup error")
               /\ UNCHANGED <<sshconfig, dirExists, pc>>
          ELSE /\ sshconfig' = TRUE
               /\ \E d \in ConfigSetup(dirExists) :
                    /\ dirExists' = d.dir
                    /\ IF d.ok
                       THEN /\ pc' = [pc EXCEPT ![t] = "listen_bind"]
                            /\ UNCHANGED hist
                       ELSE /\ Done(t, "Listen", "mkdir error")
                            /\ UNCHANGED pc
  /\ UNCHANGED <<listener, open, nextId, local, pend, conns, seen>>

\* a Listen that does not look at the stored listener
ListenBeginUnchecked(t) == ListenSetup(t)

\* Listen, lines 351-361: the nil check, then setup() and config.Setup()
ListenBegin(t) ==
  /\ pc[t] = "idle"
  /\ ~Crashed
  /\ Len(hist) < MaxCalls
  /\ IF listener # 0
     THEN /\ Done(t, "Listen", ErrAlreadyStarted)
          /\ UNCHANGED <<parseVars, fsVars, sessVars, auxVars>>
          /\ UNCHANGED <<listener, open, nextId, keyFile, sshconfig, dirExists,
                         pc, local, pend, conns, seen>>
     ELSE ListenSetup(t)

\* Listen, lines 363-369: s.listener, err = net.Listen("tcp", bind)
ListenBind(t) ==
  /\ pc[t] = "listen_bind"
  /\ ~Crashed
  /\ UNCHANGED <<parseVars, fsVars, sessVars, auxVars>>
  /\ \E ok \in BOOLEAN :
       IF ok /\ nextId < MaxListens
       THEN /\ nextId' = nextId + 1
            /\ open' = open \cup {nextId + 1}
            /\ WriteSlot(nextId + 1)
            /\ Done(t, "Listen", "nil")
       ELSE /\ WriteSlot(0)
            /\ Done(t, "Listen", "bind error")
            /\ UNCHANGED <<open, nextId>>
  /\ pc' = [pc EXCEPT ![t] = "idle"]
  /\ UNCHANGED <<keyFile, sshconfig, dirExists, local, pend, conns>>

\* Stop, lines 424-431: the nil check and s.listener.Close()
StopBegin(t) ==
  /\ pc[t] = "idle"
  /\ ~Crashed
  /\ UNCHANGED <<parseVars, fsVars, sessVars, auxVars>>
  /\ Len(hist) < MaxCalls
  /\ IF listener = 0
     THEN /\ Done(t, "Stop", "nil")
          /\ UNCHANGED <<open, pc, local, pend>>
     ELSE /\ open' = open \ {listener}
          /\ local' = [local EXCEPT ![t] = listener]
          /\ \E err \in {"nil", "close error"} :
               pend' = [pend EXCEPT ![t] = IF listener \in open THEN err
                                           ELSE "close error"]
          /\ pc' = [pc EXCEPT ![t] = "stop_clear"]
          /\ UNCHANGED hist
  /\ UNCHANGED <<listener, nextId, keyFile, sshconfig, dirExists, conns, seen>>

\* a Stop whose deferred function does not clear the field
StopClearKept(t) ==
  /\ pc[t] = "stop_clear"
  /\ ~Crashed
  /\ UNCHANGED <<parseVars, fsVars, sessVars, auxVars>>
  /\ Done(t, "Stop", pend[t])
  /\ pc' = [pc EXCEPT ![t] = "idle"]
  /\ UNCHANGED <<listener, seen, open, nextId, keyFile, sshconfig, dirExists,
                 local, pend, conns>>

\* Stop, lines 427-429: the deferred s.listener = nil, then the return
StopClear(t) ==
  /\ pc[t] = "stop_clear"
  /\ ~Crashed
  /\ UNCHANGED <<parseVars, fsVars, sessVars, auxVars>>
  /\ WriteSlot(0)
  /\ Done(t, "Stop", pend[t])
  /\ pc' = [pc EXCEPT ![t] = "idle"]
  /\ UNCHANGED <<open, nextId, keyFile, sshconfig, dirExists, local, pend, conns>>

\* an Address that answers with the address of the last listener bound
AddressLast(t) ==
  /\ pc[t] = "idle"
  /\ ~Crashed
  /\ UNCHANGED <<parseVars, fsVars, sessVars, auxVars>>
  /\ Len(hist) < MaxCalls
  /\ hist' = Append(hist, IF nextId # 0 THEN Ret(t, "Address", "addr", nextId)
                                      ELSE Ret(t, "Address", "", 0))
  /\ UNCHANGED <<listener, open, nextId, keyFile, sshconfig, dirExists, pc,
                 local, pend, conns, seen>>

\* Address, lines 437-442
Address(t) ==
  /\ pc[t] = "idle"
  /\ ~Crashed
  /\ UNCHANGED <<parseVars, fsVars, sessVars, auxVars>>
  /\ Len(hist) < MaxCalls
  /\ hist' = Append(hist, IF listener # 0 THEN Ret(t, "Address", "addr", listener)
                                      ELSE Ret(t, "Address", "", 0))
  /\ UNCHANGED <<listener, open, nextId, keyFile, sshconfig, dirExists, pc,
                 local, pend, conns, seen>>

\* Serve, lines 373-375: the nil check before the loop
ServeBegin(t) ==
  /\ pc[t] = "idle"
  /\ ~Crashed
  /\ UNCHANGED <<parseVars, fsVars, sessVars, auxVars>>
  /\ Len(hist) < MaxCalls
  /\ IF listener = 0
     THEN /\ Done(t, "Serve", ErrNoListener)
          /\ UNCHANGED <<pc, seen>>
     ELSE /\ pc' = [pc EXCEPT ![t] = "serve_loop"]
          /\ seen' = {listener}
          /\ UNCHANGED hist
  /\ UNCHANGED <<listener, open, nextId, keyFile, sshconfig, dirExists, local,
                 pend, conns>>

\* Serve, line 379: s.listener is read again and Accept is called on it; on a
\* nil interface the call panics and the process dies
ServeLoad(t) ==
  /\ pc[t] = "serve_loop"
  /\ ~Crashed
  /\ UNCHANGED <<parseVars, fsVars, sessVars, auxVars>>
  /\ \E v \in ReadSlot(t) :
       IF v = 0
       THEN /\ pc' = [pc EXCEPT ![t] = "panicked"]
            /\ UNCHANGED local
       ELSE /\ pc' = [pc EXCEPT ![t] = "serve_accept"]
            /\ local' = [local EXCEPT ![t] = v]
  /\ UNCHANGED <<listener, open, nextId, keyFile, sshconfig, dirExists, pend,
                 hist, conns, seen>>

\* Serve, lines 379-411: Accept returns a connection, which is handed to a new
\* goroutine, or returns the error of a closed listener, which ends Serve
ServeAccept(t) ==
  /\ pc[t] = "serve_accept"
  /\ ~Crashed
  /\ UNCHANGED <<parseVars, fsVars, sessVars, auxVars>>
  /\ IF local[t] \in open
     THEN /\ conns < MaxConns
          /\ conns' = conns + 1
          /\ pc' = [pc EXCEPT ![t] = "serve_loop"]
          /\ UNCHANGED hist
     ELSE /\ Done(t, "Serve", "accept error")
          /\ pc' = [pc EXCEPT ![t] = "idle"]
          /\ UNCHANGED conns
  /\ UNCHANGED <<listener, open, nextId, keyFile, sshconfig, dirExists, local,
                 pend, seen>>

ParserOff ==
  /\ cmdIn = <<>>
  /\ parsed = NoResult
  /\ parsePc = "off"

\* the server after NewSSH; key files and the repositories directory may be
\* left from an earlier run
InitCtl ==
  /\ ParserOff
  /\ SessIdle
  /\ SconnIdle /\ HookFsIdle /\ RecvIdle /\ ForceIdle
  /\ objects = {}
  /\ initCalls = <<>>
  /\ listener = 0
  /\ open = {}
  /\ nextId = 0
  /\ keyFile \in [KeyTypes -> {NoKey, StoredKey}]
  /\ sshconfig = FALSE
  /\ dirExists \in BOOLEAN
  /\ pc = [t \in Threads |-> "idle"]
  /\ local = [t \in Threads |-> 0]
  /\ pend = [t \in Threads |-> "nil"]
  /\ hist = <<>>
  /\ conns = 0
  /\ seen = {0}

\* one goroutine calls Listen, Stop, Address and Serve one after the other
NextSeq ==
  \E t \in {"main"} :
     \/ ListenBegin(t)
     \/ ListenBind(t)
     \/ StopBegin(t)
     \/ StopClear(t)
     \/ Address(t)
     \/ ServeBegin(t)
     \/ ServeLoad(t)
     \/ ServeAccept(t)

SpecSeq == InitCtl /\ [][NextSeq]_vars

\* goroutine main calls Listen, Stop and Address while goroutine srv runs Serve
NextConc ==
  \/ \E t \in {"main"} :
       \/ ListenBegin(t)
       \/ ListenBind(t)
       \/ StopBegin(t)
       \/ StopClear(t)
       \/ Address(t)
  \/ \E t \in {"srv"} :
       \/ ServeBegin(t)
       \/ ServeLoad(t)
       \/ ServeAccept(t)

SpecConc == InitCtl /\ [][NextConc]_vars

(***************************************************************************)
(* Properties of the control surface                                        *)
(***************************************************************************)
Last(h) == h[Len(h)]

\* this step completes a call of op
CallDone(op) == Len(hist') = Len(hist) + 1 /\ Last(hist').op = op

\* C5: a Listen that finds a listener stored returns ErrAlreadyStarted and
\* changes neither the stored listener, the host keys nor the repositories
\* directory, and never goes on to setup; a Serve that finds no listener
\* returns ErrNoListener, accepts nothing and never enters the accept loop.
C5_GuardedCalls ==
  [][\A t \in Threads :
       /\ (CallDone("Listen") /\ listener # 0) =>
            /\ Last(hist').val = ErrAlreadyStarted
            /\ UNCHANGED <<listener, open, nextId, keyFile, sshconfig, dirExists,
                           objects>>
       /\ (pc[t] = "idle" /\ pc'[t] = "listen_bind") => listener = 0
       /\ (CallDone("Serve") /\ listener = 0) =>
            /\ Last(hist').val = ErrNoListener
            /\ UNCHANGED <<conns, listener, open>>
       /\ (pc[t] = "idle" /\ pc'[t] = "serve_loop") => listener # 0]_vars

\* C5 witness: a Listen has been rejected with ErrAlreadyStarted and a Serve
\* with ErrNoListener
C5_Witness ==
  /\ \E i \in 1..Len(hist) :
       hist[i].op = "Listen" /\ hist[i].val = ErrAlreadyStarted
  /\ \E j \in 1..Len(hist) :
       hist[j].op = "Serve" /\ hist[j].val = ErrNoListener

\* C6, the part about states: between calls, the last Address returned ""
\* exactly when no listener is stored and else the address of the stored,
\* bound listener; after a Stop the slot is empty; a Listen that follows a
\* Stop is not rejected with ErrAlreadyStarted.
C6_States ==
  /\ (pc["main"] = "idle" /\ hist # <<>> /\ Last(hist).op = "Address") =>
        /\ (Last(hist).val = "") = (listener = 0)
        /\ listener # 0 =>
             /\ Last(hist).val = "addr"
             /\ Last(hist).addr = listener
             /\ listener \in open
  /\ (pc["main"] = "idle" /\ hist # <<>> /\ Last(hist).op = "Stop") => listener = 0
  /\ \A i \in 1..(Len(hist) - 1) :
       (hist[i].op = "Stop" /\ hist[i + 1].op = "Listen") =>
          hist[i + 1].val # ErrAlreadyStarted

\* C6: in a sequential run of Listen, Stop and Address calls, C6_States holds
\* throughout, and a Stop that finds no listener returns no error and changes
\* nothing.
C6_Lifecycle ==
  /\ []C6_States
  /\ [][(CallDone("Stop") /\ listener = 0) =>
          /\ Last(hist').val = "nil"
          /\ UNCHANGED <<listener, open, nextId, keyFile, sshconfig, dirExists,
                         conns>>]_vars

\* C6 witness: Listen succeeded, Stop returned the error of Close, Address
\* returned "" and the next Listen succeeded
C6_Witness ==
  /\ Len(hist) >= 4
  /\ hist[1].op = "Listen" /\ hist[1].val = "nil"
  /\ hist[2].op = "Stop" /\ hist[2].val = "close error"
  /\ hist[3].op = "Address" /\ hist[3].val = ""
  /\ hist[4].op = "Listen" /\ hist[4].val = "nil"

\* the i-th call is a Serve made right after a Stop that followed a
\* successful Listen
ServeAfterStop(i) ==
  /\ i >= 3
  /\ hist[i].op = "Serve"
  /\ hist[i - 1].op = "Stop"
  /\ \E j \in 1..(i - 2) : hist[j].op = "Listen" /\ hist[j].val = "nil"

\* C7 as claimed: after a successful Listen and a Stop, Serve returns the
\* error of the accept loop on the closed listener.
C7_AcceptLoopError ==
  \A i \in 1..Len(hist) : ServeAfterStop(i) => hist[i].val = "accept error"

\* C7 as amended: after a successful Listen and a Stop, Serve returns
\* ErrNoListener, because Stop has cleared the stored listener.
C7_ServeAfterStop ==
  \A i \in 1..Len(hist) : ServeAfterStop(i) => hist[i].val = ErrNoListener

\* C7 witness: Listen succeeded, Stop was called, and Serve has returned
C7_Witness ==
  /\ Len(hist) >= 3
  /\ hist[1].op = "Listen" /\ hist[1].val = "nil"
  /\ hist[2].op = "Stop"
  /\ hist[3].op = "Serve"

\* C8 as claimed: a Serve that is in its accept loop and has accepted a
\* connection does not crash in any interleaving with Stop (it ends by
\* returning an error).
C8_StopEndsServe ==
  \A t \in Threads :
     (conns >= 1 /\ \A i \in 1..Len(hist) : hist[i].op # "Serve") =>
        pc[t] # "panicked"

(***************************************************************************)
(* Inputs of the parser run                                                 *)
(***************************************************************************)
\* the longest quoted path, in path segments
MaxSegs == 3

\* path segments: empty, ".", "..", ordinary names, and a name holding a quote
Segments ==
  {<<>>, <<".">>, <<".", ".">>, <<"a">>, <<"a", ".", "g", "i", "t">>,
   <<".", ".", ".">>, <<"'">>}

RECURSIVE JoinSegs(_)
JoinSegs(segs) ==
  IF segs = <<>> THEN <<>>
  ELSE IF Len(segs) = 1 THEN segs[1]
  ELSE segs[1] \o <<Slash>> \o JoinSegs(Tail(segs))

\* every path of at most MaxSegs segments, leading and doubled slashes included
Paths == {JoinSegs(segs) : segs \in UNION {[1..n -> Segments] : n \in 0..MaxSegs}}

\* separators tried between "git" and the verb; <<>> is no separator at all
Separators == {<<"-">>, <<" ">>, <<"|">>, <<"\t">>, <<"\n">>, <<"_">>, <<>>, <<"-", "-">>}

\* verbs tried: the three of the regexp and two others
VerbInputs ==
  VerbNames \cup {<<"u", "p", "l", "o", "a", "d", "-", "p", "a", "c">>,
                  <<"s", "h", "e", "l", "l">>}

Quoted(sep, verb, path) == Git \o sep \o verb \o <<" ", Quote>> \o path \o <<Quote>>

\* command lines of the shape git<sep><verb> '<path>'
ShapedInputs ==
  {Quoted(sep, verb, path) : sep \in Separators, verb \in VerbInputs, path \in Paths}

\* command lines of other shapes: text before or after, quotes or space missing
OtherInputs ==
  LET good == Quoted(<<"-">>, UploadPack, <<"a">>)
      head == Git \o <<"-">> \o ReceivePack
  IN {<<>>, Git, head,
      <<" ">> \o good, <<"x">> \o good, good \o <<" ">>, good \o <<"\n">>,
      good \o <<"x">>, good \o good,
      head \o <<" ">> \o <<"a">>,
      head \o <<" ", Quote>> \o <<"a">>,
      head \o <<" ">> \o <<"a", Quote>>,
      head \o <<" ", Quote>>,
      head \o <<Quote, "a", Quote>>,
      head \o <<" ", " ", Quote, "a", Quote>>,
      head \o <<"\t", Quote, "a", Quote>>,
      head \o <<" ", Quote, "a", "\n", "b", Quote>>,
      head \o <<" ", Quote, ".", ".", "/", "a", "\n", Quote>>,
      <<"G", "I", "T">> \o <<"-">> \o ReceivePack \o <<" ", Quote, "a", Quote>>}

Inputs == ShapedInputs \cup OtherInputs

(***************************************************************************)
(* The parser run: one command line is parsed, and the repository it names *)
(* is created by InitRepo as the exec handler does under AutoCreate.        *)
(***************************************************************************)
InitParse ==
  /\ cmdIn \in Inputs
  /\ parsed = NoResult
  /\ parsePc = "input"
  /\ objects = {}
  /\ initCalls = <<>>
  /\ CtlIdle
  /\ SessIdle
  /\ SconnIdle /\ HookFsIdle /\ RecvIdle /\ ForceIdle

\* gitcmd, err := ParseGitCommand(cmdName)
Parse ==
  /\ parsePc = "input"
  /\ parsed' = ParseGitCommand(cmdIn)
  /\ parsePc' = "parsed"
  /\ UNCHANGED <<cmdIn, objects, initCalls, ctlVars, sessVars, auxVars>>

\* InitRepo(gitcmd.Repo, s.config) for a repository that does not exist
CreateParsed ==
  /\ parsePc = "parsed"
  /\ parsed.err = ""
  /\ ~RepoExists(Join(Dir, parsed.Repo))
  /\ \E gitOk \in BOOLEAN : InitRepo(parsed.Repo, gitOk)
  /\ parsePc' = "created"
  /\ UNCHANGED <<cmdIn, parsed, ctlVars, sessVars, auxVars>>

NextParse == Parse \/ CreateParsed

SpecParse == InitParse /\ [][NextParse]_vars

(***************************************************************************)
(* Properties of the parser run                                             *)
(***************************************************************************)
\* the position of the first "/" of s, 0 when there is none
FirstSlash(s) ==
  IF \E i \in 1..Len(s) : s[i] = Slash
  THEN CHOOSE i \in 1..Len(s) : s[i] = Slash /\ \A j \in 1..(i - 1) : s[j] # Slash
  ELSE 0

\* the "/"-separated segments of s
RECURSIVE SplitSlash(_)
SplitSlash(s) ==
  IF FirstSlash(s) = 0 THEN <<s>>
  ELSE <<SubSeq(s, 1, FirstSlash(s) - 1)>> \o SplitSlash(Drop(s, FirstSlash(s)))

HasDotDot(s) == \E i \in 1..Len(SplitSlash(s)) : SplitSlash(s)[i] = <<Dot, Dot>>

\* p names a file strictly below Dir
InsideDir(p) ==
  /\ StartsWith(p, Dir \o <<Slash>>)
  /\ Len(p) > Len(Dir) + 1
  /\ ~HasDotDot(p)

\* the grammar of the specification: git, "-" or one space, a verb, a space and
\* a single-quoted path, anchored at both ends
GrammarVerb(cmd) ==
  {SubSeq(cmd, 1, 4 + Len(v)) : v \in
     {w \in VerbNames :
        /\ Len(cmd) >= 4 + Len(w) + 3
        /\ StartsWith(cmd, Git)
        /\ cmd[4] \in {"-", " "}
        /\ StartsWith(Drop(cmd, 4), w \o <<" ", Quote>>)
        /\ cmd[Len(cmd)] = Quote
        /\ \A i \in 1..Len(cmd) : cmd[i] # "\n"}}

MatchesGrammar(cmd) == GrammarVerb(cmd) # {}

\* C2: whenever ParseGitCommand succeeds, Repo has no ".." segment and no
\* leading "/", and Repo joined onto the repositories root is the root or a
\* path below it.
C2_RepoConfined ==
  (parsePc # "input" /\ parsed.err = "") =>
     /\ ~HasDotDot(parsed.Repo)
     /\ ~StartsWith(parsed.Repo, <<Slash>>)
     /\ (Join(Dir, parsed.Repo) = Dir \/ InsideDir(Join(Dir, parsed.Repo)))

\* C2 witness: the quoted path ../../a has been parsed, to the repo a
C2_Witness ==
  /\ parsePc = "parsed"
  /\ cmdIn = Quoted(<<"-">>, UploadPack, <<".", ".", "/", ".", ".", "/", "a">>)
  /\ parsed.err = ""
  /\ parsed.Repo = <<"a">>

\* C3 as claimed: every command line of the grammar parses, with the verb
\* kept and a Repo that is a strict descendant of the root (not empty), and
\* a repository InitRepo creates for it lies inside the repositories root.
C3_StrictDescendant ==
  (parsePc # "input" /\ MatchesGrammar(cmdIn)) =>
     /\ parsed.err = ""
     /\ parsed.Command \in GrammarVerb(cmdIn)
     /\ parsed.Repo # <<>>
     /\ InsideDir(Join(Dir, parsed.Repo))
     /\ \A o \in objects : InsideDir(o)

\* C4 as claimed: ParseGitCommand succeeds exactly on the command lines of
\* the grammar (separator "-" or one space), keeps the verb as given, and
\* returns the invalid-command error on every other input.
C4_ExactGrammar ==
  parsePc # "input" =>
     /\ (parsed.err = "") = MatchesGrammar(cmdIn)
     /\ parsed.err = "" => parsed.Command \in GrammarVerb(cmdIn)
     /\ parsed.err # "" => parsed.err = ErrInvalidGitCommand

(***************************************************************************)
(* Session request loop (ssh.go, handleConnection)                          *)
(***************************************************************************)
\* the most bytes a child writes to stdout and to stderr, and the capacity of
\* the pipe between the child and the server
MaxOut == 1
MaxErr == 2
PipeCap == 1

\* the zero byte, and the low byte of a non-zero length, of an SSH string
Nul == "NUL"
LenByte == "LEN"

\* the payload of an exec request: the command as an SSH string, a 4-byte
\* big-endian length followed by the text
Wire(c) == <<Nul, Nul, Nul, IF c = <<>> THEN Nul ELSE LenByte>> \o c

\* the position of the first occurrence of sub in str, 0 when there is none
IndexOf(str, sub) ==
  LET hits == {i \in 1..(Len(str) - Len(sub) + 1) :
                 SubSeq(str, i, i + Len(sub) - 1) = sub}
  IN IF hits = {} THEN 0 ELSE CHOOSE i \in hits : \A j \in hits : i <= j

\* cleanCommand: everything before the first "git" is dropped
cleanCommand(c) == IF IndexOf(c, Git) = 0 THEN c ELSE Drop(c, IndexOf(c, Git) - 1)

\* strings.TrimLeft(str, cutset)
RECURSIVE TrimLeft(_, _)
TrimLeft(str, cutset) ==
  IF str # <<>> /\ str[1] \in cutset THEN TrimLeft(Tail(str), cutset) ELSE str

\* strings.Replace(str, "\x00", "", -1)
RECURSIVE DropNul(_)
DropNul(str) ==
  IF str = <<>> THEN <<>>
  ELSE IF str[1] = Nul THEN DropNul(Tail(str))
  ELSE <<str[1]>> \o DropNul(Tail(str))

\* lines 102 and 128-133: the command name taken from the payload, or
\* "panic" when [1:] slices the empty string
CmdName(payload) ==
  LET trimmed == TrimLeft(cleanCommand(payload), {"'", "(", ")"}) IN
  IF StartsWith(trimmed, <<Nul>>)
  THEN IF DropNul(trimmed) = <<>> THEN "panic" ELSE Tail(DropNul(trimmed))
  ELSE trimmed

\* the commands clients send in exec requests
ExecCommands ==
  {Quoted(<<"-">>, UploadPack, <<"a", ".", "g", "i", "t">>),
   Quoted(<<"-">>, ReceivePack, <<"a">>),
   Quoted(<<" ">>, UploadPack, <<"a", ".", "g", "i", "t">>),
   <<"l", "s">>,
   <<>>}

ExecPayloads == {Wire(c) : c \in ExecCommands}

\* the programs exec.Command can start: the three git-<verb> executables
Executables == {Git \o <<"-">> \o v : v \in VerbNames}

SessCrashed == \E s \in Sessions : sess[s].pc = "panicked"

\* defer ch.Close(): the goroutine of s returns
Closed(r) == [r EXCEPT !.pc = "closed", !.chan = Append(r.chan, "close")]

Frame == UNCHANGED <<parseVars, ctlVars, authorizeSet, autoCreate, auxVars>>

\* lines 105-124: an env request; an invalid shape is skipped, and a failing
\* env command ends the session
EnvRequest(s) ==
  /\ sess[s].pc = "wait"
  /\ ~SessCrashed
  /\ \E envOk \in BOOLEAN :
       sess' = [sess EXCEPT ![s] = IF envOk THEN @ ELSE Closed(@)]
  /\ UNCHANGED fsVars
  /\ Frame

\* lines 125-152: an exec request is parsed; a parse failure is answered with
\* "Invalid command." and ends the session
ExecRequest(s) ==
  /\ sess[s].pc = "wait"
  /\ ~SessCrashed
  /\ \E payload \in ExecPayloads :
       LET cmdName == CmdName(payload)
           gitcmd == ParseGitCommand(cmdName)
           r == [sess[s] EXCEPT !.req = "exec", !.payload = payload]
       IN sess' = [sess EXCEPT ![s] =
            IF cmdName = "panic" THEN [r EXCEPT !.pc = "panicked"]
            ELSE IF gitcmd.err # ""
                 THEN Closed([r EXCEPT !.chan = Append(@, "Invalid command.\r\n")])
            ELSE [r EXCEPT !.gitcmd = gitcmd,
                           !.pc = IF authorizeSet THEN "authorize" ELSE "check_repo"]]
  /\ UNCHANGED fsVars
  /\ Frame

\* lines 202-205: any other request type
OtherRequest(s) ==
  /\ sess[s].pc = "wait"
  /\ ~SessCrashed
  /\ sess' = [sess EXCEPT ![s] =
                Closed([@ EXCEPT !.req = "other",
                                 !.chan = Append(@, "Unsupported request type.\r\n")])]
  /\ UNCHANGED fsVars
  /\ Frame

\* line 101: the request channel is closed by the client and the loop ends
ClientClose(s) ==
  /\ sess[s].pc = "wait"
  /\ ~SessCrashed
  /\ sess' = [sess EXCEPT ![s] = Closed(@)]
  /\ UNCHANGED fsVars
  /\ Frame

\* an Authorize call whose result false does not end the session
AuthorizeCallLax(s) ==
  /\ sess[s].pc = "authorize"
  /\ ~SessCrashed
  /\ \E res \in {"true", "false", "error"} :
       sess' = [sess EXCEPT ![s] =
                  IF res # "error"
                  THEN [@ EXCEPT !.authRes = res, !.authKey = sess[s].keyID,
                                 !.pc = "check_repo"]
                  ELSE Closed([@ EXCEPT !.authRes = res, !.authKey = sess[s].keyID])]
  /\ UNCHANGED fsVars
  /\ Frame

\* lines 142-152: s.Authorize(keyID, TrimSuffix(Repo, ".git")); an error or
\* false ends the session
AuthorizeCall(s) ==
  /\ sess[s].pc = "authorize"
  /\ ~SessCrashed
  /\ \E res \in {"true", "false", "error"} :
       sess' = [sess EXCEPT ![s] =
                  IF res = "true"
                  THEN [@ EXCEPT !.authRes = res, !.authKey = sess[s].keyID,
                                 !.pc = "check_repo"]
                  ELSE Closed([@ EXCEPT !.authRes = res, !.authKey = sess[s].keyID])]
  /\ UNCHANGED fsVars
  /\ Frame

\* line 154: !RepoExists(filepath.Join(s.config.Dir, gitcmd.Repo)) && AutoCreate
CheckRepo(s) ==
  /\ sess[s].pc = "check_repo"
  /\ ~SessCrashed
  /\ sess' = [sess EXCEPT ![s].pc =
                IF ~RepoExists(Join(Dir, sess[s].gitcmd.Repo)) /\ autoCreate
                THEN "init_repo" ELSE "spawn"]
  /\ UNCHANGED fsVars
  /\ Frame

\* lines 155-159: InitRepo(gitcmd.Repo, s.config); a failure ends the session
InitRepoCall(s) ==
  /\ sess[s].pc = "init_repo"
  /\ ~SessCrashed
  /\ \E gitOk \in BOOLEAN :
       /\ InitRepo(sess[s].gitcmd.Repo, gitOk)
       /\ sess' = [sess EXCEPT ![s] =
                     IF gitOk THEN [@ EXCEPT !.init = "ok", !.pc = "spawn"]
                     ELSE Closed([@ EXCEPT !.init = "failed"])]
  /\ Frame

\* lines 162-190: the child is started with GITKIT_KEY=keyID in its
\* environment and its three pipes, and the request is answered; a failure
\* to start ends the session
Spawn(s) ==
  /\ sess[s].pc = "spawn"
  /\ ~SessCrashed
  /\ \E startOk \in BOOLEAN, o \in 0..MaxOut, e \in 0..MaxErr :
       sess' = [sess EXCEPT ![s] =
                  IF startOk /\ sess[s].gitcmd.Command \in Executables
                  THEN [@ EXCEPT !.child = "running", !.envKey = sess[s].keyID,
                                 !.outN = o, !.errN = e,
                                 !.outLeft = o, !.errLeft = e,
                                 !.chan = Append(@, "reply"), !.pc = "copy_out"]
                  ELSE Closed(@)]
  /\ UNCHANGED fsVars
  /\ Frame

\* the child writes one byte to its stdout pipe
ChildWriteOut(s) ==
  /\ sess[s].child = "running"
  /\ ~SessCrashed
  /\ sess[s].outLeft > 0
  /\ sess[s].outPipe < PipeCap
  /\ sess' = [sess EXCEPT ![s].outLeft = @ - 1, ![s].outPipe = @ + 1]
  /\ UNCHANGED fsVars
  /\ Frame

\* the child writes one byte to its stderr pipe
ChildWriteErr(s) ==
  /\ sess[s].child = "running"
  /\ ~SessCrashed
  /\ sess[s].errLeft > 0
  /\ sess[s].errPipe < PipeCap
  /\ sess' = [sess EXCEPT ![s].errLeft = @ - 1, ![s].errPipe = @ + 1]
  /\ UNCHANGED fsVars
  /\ Frame

\* the child has written everything and exits, which closes its pipe ends
ChildExit(s) ==
  /\ sess[s].child = "running"
  /\ ~SessCrashed
  /\ sess[s].outLeft = 0
  /\ sess[s].errLeft = 0
  /\ \E code \in {0, 1} :
       sess' = [sess EXCEPT ![s].child = "exited", ![s].exit = code]
  /\ UNCHANGED fsVars
  /\ Frame

\* line 192: io.Copy(ch, stdout) forwards a byte, or returns at end of file
CopyOut(s) ==
  /\ sess[s].pc = "copy_out"
  /\ ~SessCrashed
  /\ IF sess[s].outPipe > 0
     THEN sess' = [sess EXCEPT ![s].outPipe = @ - 1,
                               ![s].chan = Append(@, "out")]
     ELSE /\ sess[s].child = "exited"
          /\ sess' = [sess EXCEPT ![s].pc = "copy_err"]
  /\ UNCHANGED fsVars
  /\ Frame

\* line 193: io.Copy(ch.Stderr(), stderr) forwards a byte, or returns at end
\* of file
CopyErr(s) ==
  /\ sess[s].pc = "copy_err"
  /\ ~SessCrashed
  /\ IF sess[s].errPipe > 0
     THEN sess' = [sess EXCEPT ![s].errPipe = @ - 1,
                               ![s].chan = Append(@, "err")]
     ELSE /\ sess[s].child = "exited"
          /\ sess' = [sess EXCEPT ![s].pc = "wait_child"]
  /\ UNCHANGED fsVars
  /\ Frame

\* a wait that sends the exit status whatever cmd.Wait returns
WaitChildAnyCode(s) ==
  /\ sess[s].pc = "wait_child"
  /\ ~SessCrashed
  /\ sess[s].child = "exited"
  /\ sess' = [sess EXCEPT ![s] = Closed([@ EXCEPT !.chan = Append(@, "exit-status 0")])]
  /\ UNCHANGED fsVars
  /\ Frame

\* lines 195-201: cmd.Wait() returns an error for a non-zero exit code, which
\* ends the session; otherwise exit-status 0 is sent
WaitChild(s) ==
  /\ sess[s].pc = "wait_child"
  /\ ~SessCrashed
  /\ sess[s].child = "exited"
  /\ sess' = [sess EXCEPT ![s] =
                IF sess[s].exit # 0 THEN Closed(@)
                ELSE Closed([@ EXCEPT !.chan = Append(@, "exit-status 0")])]
  /\ UNCHANGED fsVars
  /\ Frame

\* the server is configured, the repositories directory is empty, and every
\* session channel has been accepted
InitSession ==
  /\ ParserOff
  /\ CtlIdle
  /\ SconnIdle /\ HookFsIdle /\ RecvIdle /\ ForceIdle
  /\ sess = [s \in Sessions |-> NewSession]
  /\ authorizeSet \in BOOLEAN
  /\ autoCreate \in BOOLEAN
  /\ objects = {}
  /\ initCalls = <<>>

NextSession ==
  \E s \in Sessions :
     \/ EnvRequest(s)
     \/ ExecRequest(s)
     \/ OtherRequest(s)
     \/ ClientClose(s)
     \/ AuthorizeCall(s)
     \/ CheckRepo(s)
     \/ InitRepoCall(s)
     \/ Spawn(s)
     \/ ChildWriteOut(s)
     \/ ChildWriteErr(s)
     \/ ChildExit(s)
     \/ CopyOut(s)
     \/ CopyErr(s)
     \/ WaitChild(s)

SpecSession == InitSession /\ [][NextSession]_vars

(***************************************************************************)
(* Properties of the sessions                                               *)
(***************************************************************************)
\* n copies of x
Rep(x, n) == [i \in 1..n |-> x]

Sent(s, x) == \E i \in 1..Len(sess[s].chan) : sess[s].chan[i] = x

\* C1: with Authorize registered, a session has a child or has called
\* InitRepo only if Authorize returned true without error for its request;
\* when Authorize returned false or an error, the session has ended with the
\* channel closed, no child, no InitRepo call and no success reply.
C1_AuthorizeGates ==
  authorizeSet =>
    \A s \in Sessions :
       /\ (sess[s].child # "none" \/ sess[s].init # "none" \/ Sent(s, "reply")) =>
             sess[s].authRes = "true"
       /\ sess[s].authRes \in {"false", "error"} =>
             /\ sess[s].pc = "closed"
             /\ Last(sess[s].chan) = "close"
             /\ sess[s].child = "none"
             /\ sess[s].init = "none"
             /\ ~Sent(s, "reply")
       /\ Len(initCalls) = Cardinality({x \in Sessions : sess[x].init # "none"})

\* C1 witness: one session was denied by Authorize and is closed, another
\* was authorized and its child has run
C1_Witness ==
  /\ authorizeSet
  /\ \E s \in Sessions : sess[s].authRes = "false" /\ sess[s].pc = "closed"
  /\ \E s \in Sessions : sess[s].authRes = "true" /\ sess[s].child = "exited"

\* what the client has received when the session of a started child ends
Delivered(s, withStatus) ==
  <<"reply">> \o Rep("out", sess[s].outN) \o Rep("err", sess[s].errN)
    \o (IF withStatus THEN <<"exit-status 0">> ELSE <<>>) \o <<"close">>

\* C9 as claimed: when the child of a session has exited, with any exit code,
\* the session ends with exit-status 0 sent after all stdout and stderr
\* bytes, and then the close.
C9_AlwaysExitStatus ==
  \A s \in Sessions :
     (sess[s].child = "exited" /\ sess[s].pc = "closed") =>
        sess[s].chan = Delivered(s, TRUE)

\* C9 as amended: when the child has exited with code 0 the session ends
\* with exit-status 0 sent after all stdout and stderr bytes, and then the
\* close; when it has exited with another code the channel is closed after
\* the same bytes without any exit-status.
C9_ExitStatusOnSuccess ==
  \A s \in Sessions :
     (sess[s].child = "exited" /\ sess[s].pc = "closed") =>
        sess[s].chan = Delivered(s, sess[s].exit = 0)

\* C9 witness: a child that wrote to stdout and stderr and exited with code
\* 0, and a child that exited with code 1; both sessions have ended
C9_Witness ==
  /\ \E s \in Sessions :
       /\ sess[s].pc = "closed" /\ sess[s].child = "exited" /\ sess[s].exit = 0
       /\ sess[s].outN = 1 /\ sess[s].errN = 1
  /\ \E s \in Sessions :
       sess[s].pc = "closed" /\ sess[s].child = "exited" /\ sess[s].exit = 1

\* C10 as claimed: under AutoCreate a child is spawned only for a repository
\* that was valid or has been created by InitRepo, a failed InitRepo ends
\* the session without a child, and once InitRepo(r) has succeeded
\* join(root, r) is a valid repository (so that a later exec for r finds it
\* and does not call InitRepo again).
C10_CreatedOnFirstAccess ==
  /\ \A s \in Sessions :
       /\ (autoCreate /\ sess[s].child # "none") =>
             \/ sess[s].init = "ok"
             \/ RepoExists(Join(Dir, sess[s].gitcmd.Repo))
       /\ sess[s].init = "failed" => sess[s].child = "none"
  /\ \A i \in 1..Len(initCalls) :
       initCalls[i].ok => RepoExists(Join(Dir, initCalls[i].name))

(***************************************************************************)
(* Connections and key ids (ssh.go, setup and Serve)                        *)
(***************************************************************************)
\* the connections Serve accepts in a run that follows key ids
Conns == {"c1", "c2"}

\* the public keys clients offer
ClientKeys == {"k1", "k2", "k3"}

\* the keys the client of each connection holds
Offers == [c \in Conns |-> IF c = "c1" THEN {"k1", "k3"} ELSE {"k2", "k3"}]

\* PublicKeyLookupFunc of the host: the id of the PublicKey it returns for a
\* key, "nil" when it returns no key or an error
KeyTable == [k \in ClientKeys |->
               IF k = "k1" THEN "alice" ELSE IF k = "k2" THEN "bob" ELSE "nil"]

\* a connection that has been accepted and has not completed the handshake
NewConn == [st |-> "new", key |-> "none", perm |-> "nil"]

\* lines 264-275 and 387-407: the handshake of connection c. With Auth the
\* callback looks the offered key up and stores the id of the result as the
\* "key-id" extension of the connection's Permissions; without Auth no
\* client authentication is asked and Permissions stays nil. A user other
\* than GitUser closes the connection.
Handshake(c) ==
  /\ sconn.c[c].st = "new"
  /\ \E k \in Offers[c], userOk \in BOOLEAN :
       LET done == IF ~sconn.auth THEN [st |-> "ready", key |-> "none", perm |-> "nil"]
                   ELSE IF KeyTable[k] = "nil" THEN [NewConn EXCEPT !.st = "dropped"]
                   ELSE [st |-> "ready", key |-> k, perm |-> KeyTable[k]]
       IN sconn' = [sconn EXCEPT !.c[c] =
                      IF done.st = "ready" /\ ~userOk
                      THEN [done EXCEPT !.st = "dropped"] ELSE done]
  /\ UNCHANGED <<parseVars, fsVars, ctlVars, sessVars, hookFs, recv, force>>

\* lines 404-407: keyId is "" unless the connection has Permissions
KeyIdOf(c) == IF sconn.c[c].perm = "nil" THEN "" ELSE sconn.c[c].perm

\* a handleConnection that takes the key id of any connection served
OpenChannelShared(s) ==
  /\ sess[s].pc = "nochan"
  /\ sconn.c[sconn.of[s]].st = "ready"
  /\ \E type \in {"session", "x11"}, c \in {x \in Conns : sconn.c[x].st = "ready"} :
       sess' = [sess EXCEPT ![s] =
                  IF type # "session" THEN [@ EXCEPT !.pc = "rejected"]
                  ELSE [@ EXCEPT !.pc = "wait", !.keyID = KeyIdOf(c)]]
  /\ UNCHANGED <<parseVars, fsVars, ctlVars, authorizeSet, autoCreate, auxVars>>

\* lines 85-98 and 410: handleConnection(keyId, chans) of the connection of s
\* rejects a channel that is not a session and serves a session channel in a
\* goroutine that holds the connection's key id
OpenChannel(s) ==
  /\ sess[s].pc = "nochan"
  /\ sconn.c[sconn.of[s]].st = "ready"
  /\ \E type \in {"session", "x11"} :
       sess' = [sess EXCEPT ![s] =
                  IF type # "session" THEN [@ EXCEPT !.pc = "rejected"]
                  ELSE [@ EXCEPT !.pc = "wait", !.keyID = KeyIdOf(sconn.of[s])]]
  /\ UNCHANGED <<parseVars, fsVars, ctlVars, authorizeSet, autoCreate, auxVars>>

\* Authorize is registered, the repository exists and AutoCreate is off (so
\* that InitRepo is never reached), two connections have been accepted and
\* each session channel is on one of them
InitKey ==
  /\ ParserOff
  /\ CtlIdle
  /\ HookFsIdle /\ RecvIdle /\ ForceIdle
  /\ sess = [s \in Sessions |-> [NewSession EXCEPT !.pc = "nochan"]]
  /\ authorizeSet = TRUE
  /\ autoCreate = FALSE
  /\ objects = {Join(Join(Dir, <<"a", ".", "g", "i", "t">>), ObjectsName)}
  /\ initCalls = <<>>
  /\ \E a \in BOOLEAN, c2 \in Conns :
       sconn = [auth |-> a,
                of |-> [s \in Sessions |-> IF s = "s1" THEN "c1" ELSE c2],
                c |-> [c \in Conns |-> NewConn]]

NextKey ==
  \/ \E c \in Conns : Handshake(c)
  \/ \E s \in Sessions :
       \/ OpenChannel(s)
       \/ EnvRequest(s)
       \/ ExecRequest(s)
       \/ OtherRequest(s)
       \/ ClientClose(s)
       \/ AuthorizeCall(s)
       \/ CheckRepo(s)
       \/ Spawn(s)
       \/ ChildWriteOut(s)
       \/ ChildWriteErr(s)
       \/ ChildExit(s)
       \/ CopyOut(s)
       \/ CopyErr(s)
       \/ WaitChild(s)

SpecKey == InitKey /\ [][NextKey]_vars

\* the id of the PublicKey the lookup callback returned for the key that
\* authenticated the connection of s, "" for an anonymous connection
LookedUp(s) ==
  LET k == sconn.c[sconn.of[s]].key IN IF k = "none" THEN "" ELSE KeyTable[k]

\* C11: the key id given to Authorize for a session, and the GITKIT_KEY of
\* the child spawned for it, are the id the lookup callback returned for the
\* key that authenticated the session's own connection, and are empty when
\* the connection is anonymous, whatever other connections and sessions run.
C11_KeyIdOfConnection ==
  \A s \in Sessions :
     /\ sess[s].authKey # "none" => sess[s].authKey = LookedUp(s)
     /\ sess[s].child # "none" => sess[s].envKey = LookedUp(s)
     /\ ~sconn.auth => LookedUp(s) = ""

\* C11 witness: two sessions on two connections that authenticated with
\* different keys, each with a child started under its own key id
C11_Witness ==
  /\ sconn.auth
  /\ sconn.of["s1"] # sconn.of["s2"]
  /\ sess["s1"].child # "none" /\ sess["s2"].child # "none"
  /\ sess["s1"].envKey = "alice" /\ sess["s2"].envKey = "bob"
  /\ sess["s1"].authKey = "alice" /\ sess["s2"].authKey = "bob"

(***************************************************************************)
(* Properties of the host key store                                         *)
(***************************************************************************)
\* C12 as claimed: once a Listen has succeeded, both private key files exist
\* with mode 0600 and both .pub files exist with mode 0644, and no Listen
\* made after a successful one has written a key file.
C12_HostKeysStored ==
  ListenSucceeded =>
     \A k \in KeyTypes :
        /\ keyFile[k].priv = "valid" /\ keyFile[k].mode = "0600"
        /\ keyFile[k].pub = "written" /\ keyFile[k].pubMode = "0644"
        /\ ~keyFile[k].late

(***************************************************************************)
(* Hook installation (config.go: setupInDir, Setup, setupHooks; git.go)     *)
(***************************************************************************)
\* the most InitRepo calls in a run that follows the hooks directories
MaxInits == 1

HookNames == {"pre-receive", "update", "post-receive"}

\* the names a hooks directory may hold, in the order ioutil.ReadDir returns
\* them (sorted by name): the three hooks, a sample file of the git
\* templates, and a subdirectory that is not empty
EntryOrder == <<"post-receive", "pre-receive", "saved", "update", "x.sample">>

EntryNames == {EntryOrder[i] : i \in 1..Len(EntryOrder)}

NoEntry == [kind |-> "none", mode |-> "none", body |-> ""]

File(mode, body) == [kind |-> "file", mode |-> mode, body |-> body]

\* a subdirectory with something in it
SubDir == [kind |-> "dir", mode |-> "0755", body |-> ""]

\* <repo>/hooks: whether it exists, whether it can be listed, its entries
NoHooksDir == [exists |-> FALSE, readable |-> TRUE,
               ent |-> [n \in EntryNames |-> NoEntry]]

\* the hooks directory "git init --bare" and "git clone --bare" create
TemplateDir == [exists |-> TRUE, readable |-> TRUE,
                ent |-> [n \in EntryNames |->
                           IF n = "x.sample" THEN File("0755", "sample") ELSE NoEntry]]

\* the repositories of these runs and the names InitRepo is called with
RepoArgs == {<<"a">>, <<"a", ".", "g", "i", "t">>, <<"b">>}

RepoOrder == <<InitRepoPath(<<"a">>), InitRepoPath(<<"b">>)>>

RepoPaths == {RepoOrder[i] : i \in 1..Len(RepoOrder)}

\* a cleanup that removes the first entry only
CleanupFirst(ent, i) ==
  LET present == {j \in i..Len(EntryOrder) : ent[EntryOrder[j]].kind # "none"} IN
  IF present = {} THEN [ent |-> ent, err |-> FALSE]
  ELSE LET j == CHOOSE x \in present : \A y \in present : x <= y IN
       IF ent[EntryOrder[j]].kind = "dir" THEN [ent |-> ent, err |-> TRUE]
       ELSE [ent |-> [ent EXCEPT ![EntryOrder[j]] = NoEntry], err |-> FALSE]

\* lines 39-46: os.Remove of every entry from the i-th on, in ReadDir order;
\* a directory that is not empty cannot be removed and ends the cleanup
RECURSIVE Cleanup(_, _)
Cleanup(ent, i) ==
  IF i > Len(EntryOrder) THEN [ent |-> ent, err |-> FALSE]
  ELSE LET n == EntryOrder[i] IN
       IF ent[n].kind = "none" THEN Cleanup(ent, i + 1)
       ELSE IF ent[n].kind = "dir" THEN [ent |-> ent, err |-> TRUE]
       ELSE Cleanup([ent EXCEPT ![n] = NoEntry], i + 1)

\* lines 49-61: ioutil.WriteFile(hooks/<name>, script, 0755) of each script
\* that is not empty. An existing file is truncated and keeps its mode, a new
\* one gets 0755. Without the hooks directory the first write fails, in
\* whatever order the map is ranged over, and nothing is written.
WriteScripts(d, scripts) ==
  IF \A n \in HookNames : scripts[n] = "" THEN [d |-> d, err |-> FALSE]
  ELSE IF ~d.exists THEN [d |-> d, err |-> TRUE]
  ELSE [d |-> [d EXCEPT !.ent = [n \in EntryNames |->
                  IF n \in HookNames /\ scripts[n] # ""
                  THEN IF d.ent[n].kind = "file"
                       THEN File(d.ent[n].mode, scripts[n])
                       ELSE File("0755", scripts[n])
                  ELSE d.ent[n]]],
        err |-> FALSE]

\* HookScripts.setupInDir on the hooks directory d: when ReadDir succeeds
\* every entry is removed, and whatever error ReadDir returns is passed over;
\* then the scripts are written. The result [d, err].
setupInDir(d, scripts) ==
  IF d.exists /\ d.readable
  THEN LET c == Cleanup(d.ent, 1) IN
       IF c.err THEN [d |-> [d EXCEPT !.ent = c.ent], err |-> TRUE]
       ELSE WriteScripts([d EXCEPT !.ent = c.ent], scripts)
  ELSE WriteScripts(d, scripts)

Outcome(x) == IF x.err THEN "error" ELSE "ok"

\* "git init --bare" on a repository path: a new repository gets the
\* template hooks directory; an existing one gets the templates it lacks
GitInit(d, isRepo) ==
  IF ~isRepo \/ ~d.exists THEN TemplateDir
  ELSE [d EXCEPT !.ent["x.sample"] =
          IF @.kind = "none" THEN File("0755", "sample") ELSE @]

\* setupHooks, lines 84-101: filepath.WalkDir visits the repositories from
\* the i-th on in lexical order; c.Hooks.setupInDir is called for each, on a
\* nil c.Hooks as well, which panics at line 33; an error ends the walk, and
\* so does a hooks directory WalkDir cannot list ("not walked": setupInDir
\* returned nil and Setup returns the error of the walk). The result is the
\* directories, the outcome for each, and "nil", "error" or "panic".
RECURSIVE Walk(_, _, _)
Walk(dir, inst, i) ==
  IF i > Len(RepoOrder) THEN [dir |-> dir, inst |-> inst, out |-> "nil"]
  ELSE LET r == RepoOrder[i] IN
       IF ~RepoExists(r) THEN Walk(dir, inst, i + 1)
       ELSE IF hookFs.hooksNil THEN [dir |-> dir, inst |-> inst, out |-> "panic"]
       ELSE LET x == setupInDir(dir[r], hookFs.scripts)
                dir2 == [dir EXCEPT ![r] = x.d]
            IN IF x.err
               THEN [dir |-> dir2, inst |-> [inst EXCEPT ![r] = "error"],
                     out |-> "error"]
               ELSE IF x.d.exists /\ ~x.d.readable
               THEN [dir |-> dir2, inst |-> [inst EXCEPT ![r] = "not walked"],
                     out |-> "error"]
               ELSE Walk(dir2, [inst EXCEPT ![r] = "ok"], i + 1)

HookFrame == UNCHANGED <<parseVars, ctlVars, sessVars, sconn, recv, force>>

\* Config.Setup, lines 70-82: os.Mkdir of Dir when it is missing, then
\* setupHooks when AutoHooks is set
ConfigSetupCall ==
  /\ hookFs.pc = "run"
  /\ \E mkdirOk \in BOOLEAN :
       IF ~hookFs.root /\ ~mkdirOk THEN UNCHANGED hookFs
       ELSE IF ~hookFs.auto THEN hookFs' = [hookFs EXCEPT !.root = TRUE]
       ELSE LET w == Walk(hookFs.dir, hookFs.inst, 1) IN
            hookFs' = [hookFs EXCEPT !.root = TRUE, !.dir = w.dir, !.inst = w.inst,
                         !.pc = IF w.out = "panic" THEN "panicked" ELSE "run"]
  /\ UNCHANGED fsVars
  /\ HookFrame

\* InitRepo, lines 10-27: "git init --bare", then the hooks are installed
\* when AutoHooks is set and Hooks is not nil
InitRepoHooks(name) ==
  /\ hookFs.pc = "run"
  /\ Len(initCalls) < MaxInits
  /\ \E gitOk \in BOOLEAN :
       /\ InitRepo(name, gitOk)
       /\ LET r == InitRepoPath(name)
              d == GitInit(hookFs.dir[r], RepoExists(r))
              x == setupInDir(d, hookFs.scripts)
          IN IF ~gitOk THEN UNCHANGED hookFs
             ELSE IF hookFs.auto /\ ~hookFs.hooksNil
             THEN hookFs' = [hookFs EXCEPT !.root = TRUE, !.dir[r] = x.d,
                                           !.inst[r] = Outcome(x)]
             ELSE hookFs' = [hookFs EXCEPT !.root = TRUE, !.dir[r] = d]
  /\ HookFrame

\* CloneRepo, lines 29-46: "git clone --bare", which fails on an existing
\* repository, then the hooks are installed as in InitRepo
CloneRepoHooks(name) ==
  /\ hookFs.pc = "run"
  /\ \E cloneOk \in BOOLEAN :
       LET r == InitRepoPath(name)
           x == setupInDir(TemplateDir, hookFs.scripts)
       IN IF ~cloneOk \/ RepoExists(r) THEN UNCHANGED <<hookFs, objects>>
          ELSE /\ objects' = objects \cup {Join(r, ObjectsName)}
               /\ IF hookFs.auto /\ ~hookFs.hooksNil
                  THEN hookFs' = [hookFs EXCEPT !.root = TRUE, !.dir[r] = x.d,
                                                !.inst[r] = Outcome(x)]
                  ELSE hookFs' = [hookFs EXCEPT !.root = TRUE, !.dir[r] = TemplateDir]
  /\ UNCHANGED initCalls
  /\ HookFrame

\* the hooks directories a repository may have before the server starts
HooksDirs ==
  {NoHooksDir} \cup
  [exists : {TRUE}, readable : BOOLEAN,
   ent : {e \in [EntryNames -> {NoEntry, SubDir, File("0644", "old"),
                                 File("0755", "sample")}] :
            /\ \A n \in HookNames : e[n] \in {NoEntry, File("0644", "old")}
            /\ e["saved"] \in {NoEntry, SubDir}
            /\ e["x.sample"] \in {NoEntry, File("0755", "sample")}}]

\* a configuration, and a repositories directory with any of the
\* repositories in it: the first with any hooks directory, the second as
\* git created it
InitHooks ==
  /\ ParserOff
  /\ CtlIdle
  /\ SessIdle
  /\ SconnIdle /\ RecvIdle /\ ForceIdle
  /\ initCalls = <<>>
  /\ \E present \in SUBSET RepoPaths, d \in HooksDirs, rootThere \in BOOLEAN,
        a \in BOOLEAN, nilHooks \in BOOLEAN, sc \in [HookNames -> {"", "new"}] :
       /\ objects = {Join(r, ObjectsName) : r \in present}
       /\ RepoOrder[1] \notin present => d = NoHooksDir
       /\ present # {} => rootThere
       /\ nilHooks => \A n \in HookNames : sc[n] = ""
       /\ hookFs = [auto |-> a, hooksNil |-> nilHooks, scripts |-> sc,
                    root |-> rootThere,
                    dir |-> [r \in RepoPaths |->
                               IF r \notin present THEN NoHooksDir
                               ELSE IF r = RepoOrder[1] THEN d ELSE TemplateDir],
                    inst |-> [r \in RepoPaths |-> "none"],
                    pc |-> "run"]

NextHooks ==
  \/ ConfigSetupCall
  \/ \E name \in RepoArgs : InitRepoHooks(name)
  \/ \E name \in RepoArgs : CloneRepoHooks(name)

SpecHooks == InitHooks /\ [][NextHooks]_vars

(***************************************************************************)
(* Properties of hook installation                                          *)
(***************************************************************************)
\* what the claim expects in hooks/ after an installation: one file of mode
\* 0755 holding the body for each script that is not empty, and nothing else
ExpectedEntries ==
  [n \in EntryNames |->
     IF n \in HookNames /\ hookFs.scripts[n] # ""
     THEN File("0755", hookFs.scripts[n]) ELSE NoEntry]

\* C13 as claimed: when the latest hook installation for a repository (by
\* Setup with AutoHooks, InitRepo or CloneRepo) has succeeded, its hooks
\* directory holds exactly one file of mode 0755 with the body of each script
\* that is not empty, and nothing that was there before.
C13_ExactHookSet ==
  \A r \in RepoPaths :
     hookFs.inst[r] = "ok" => hookFs.dir[r].ent = ExpectedEntries

\* what the latest setupInDir call for a repository returned
Returned(r) == IF hookFs.inst[r] = "error" THEN "error" ELSE "ok"

\* C14: setupInDir applied to a hooks directory it has been applied to leaves
\* the directory as it is and returns what it returned the first time,
\* whatever the directory held before and whatever the scripts are.
C14_InstallTwice ==
  \A r \in RepoPaths :
     hookFs.inst[r] # "none" =>
        LET again == setupInDir(hookFs.dir[r], hookFs.scripts) IN
        /\ again.d = hookFs.dir[r]
        /\ Outcome(again) = Returned(r)

\* C14 witness: setupInDir has run for both repositories; in the first it
\* stopped at a subdirectory it could not remove, after the entries before
\* it, and in the second it replaced the sample by two scripts
C14_Witness ==
  /\ hookFs.inst[RepoOrder[1]] = "error"
  /\ hookFs.dir[RepoOrder[1]].ent["saved"] = SubDir
  /\ hookFs.dir[RepoOrder[1]].ent["post-receive"] = NoEntry
  /\ hookFs.dir[RepoOrder[1]].ent["update"] # NoEntry
  /\ hookFs.inst[RepoOrder[2]] = "ok"
  /\ hookFs.dir[RepoOrder[2]].ent["pre-receive"] = File("0755", "new")
  /\ hookFs.dir[RepoOrder[2]].ent["update"] = File("0755", "new")
  /\ hookFs.dir[RepoOrder[2]].ent["x.sample"] = NoEntry

\* C20 as claimed: with AutoHooks set and no Hooks record, Setup completes
\* without a crash and no hook installation is made in any repository.
C20_NilHooksSkipped ==
  (hookFs.auto /\ hookFs.hooksNil) =>
     /\ hookFs.pc # "panicked"
     /\ \A r \in RepoPaths : hookFs.inst[r] = "none"

(***************************************************************************)
(* Post-receive runner (receiver.go: Receiver.Handle)                       *)
(***************************************************************************)
\* the most tokens on a hook input line
MaxTokens == 4

MainRef == "refs/heads/main"

\* the tokens of hook input lines: a commit id and two reference names
Tokens == {"rev", MainRef, "refs/heads/dev"}

Space == " "
Newline == "\n"

\* the whitespace-separated fields of a line
RECURSIVE Fields(_)
Fields(line) ==
  IF line = <<>> THEN <<>>
  ELSE IF line[1] = Space THEN Fields(Tail(line))
  ELSE <<line[1]>> \o Fields(Tail(line))

\* the part of the input before the first newline
RECURSIVE FirstLine(_)
FirstLine(in) ==
  IF in = <<>> \/ in[1] = Newline THEN <<>>
  ELSE <<in[1]>> \o FirstLine(Tail(in))

\* ReadHookInput as the specification describes it: the input is read until
\* end of file or newline and split on whitespace, and exactly three tokens
\* oldRev newRev ref are required
ReadHookInput(in) ==
  LET f == Fields(FirstLine(in)) IN
  IF Len(f) = 3
  THEN [OldRev |-> f[1], NewRev |-> f[2], Ref |-> f[3], err |-> ""]
  ELSE [OldRev |-> "", NewRev |-> "", Ref |-> "", err |-> "invalid hook input"]

NoHook == [OldRev |-> "", NewRev |-> "", Ref |-> "", err |-> ""]

\* the tokens ts written with sep between them
RECURSIVE JoinTokens(_, _)
JoinTokens(ts, sep) ==
  IF ts = <<>> THEN <<>>
  ELSE IF Len(ts) = 1 THEN ts
  ELSE <<ts[1]>> \o sep \o JoinTokens(Tail(ts), sep)

\* the inputs a hook is given: up to MaxTokens tokens, one or two spaces
\* apart, ended by nothing, by a newline, or by a newline and a further line
HookInputs ==
  {JoinTokens(ts, sep) \o end :
     ts \in UNION {[1..n -> Tokens] : n \in 0..MaxTokens},
     sep \in {<<Space>>, <<Space, Space>>},
     end \in {<<>>, <<Newline>>, <<Newline, "rev">>}}

\* a removal made only when Handle returns nil
RemoveOnSuccess(rc, val) ==
  [rc EXCEPT !.pc = "returned", !.ret = val,
             !.tmp = IF ~rc.Debug /\ val = "nil" THEN FALSE ELSE @]

\* a return after line 71: the deferred os.RemoveAll(tmpDir), registered
\* unless Debug, runs whatever is returned
ReturnDeferred(rc, val) ==
  [rc EXCEPT !.pc = "returned", !.ret = val,
             !.tmp = IF ~rc.Debug THEN FALSE ELSE @]

RecvFrame == UNCHANGED <<parseVars, fsVars, ctlVars, sessVars, sconn, hookFs, force>>

\* lines 49-61: the hook input is read, the branch policy is applied and the
\* identifier of the temporary directory is generated
HandleRead ==
  /\ recv.pc = "start"
  /\ \E uuidOk \in BOOLEAN :
       LET hook == ReadHookInput(recv.input) IN
       recv' = IF hook.err # ""
               THEN [recv EXCEPT !.pc = "returned", !.ret = hook.err]
               ELSE IF recv.MainOnly /\ hook.Ref # MainRef
               THEN [recv EXCEPT !.pc = "returned", !.hook = hook,
                                 !.ret = "cant push to non-main branch"]
               ELSE IF ~uuidOk
               THEN [recv EXCEPT !.pc = "returned", !.hook = hook,
                                 !.ret = "error generating new uuid"]
               ELSE [recv EXCEPT !.pc = "mkdir", !.hook = hook]
  /\ RecvFrame

\* lines 63-71: os.MkdirAll(tmpDir, 0774); a failure returns before the
\* removal is deferred, and has made no tmpDir
HandleMkdir ==
  /\ recv.pc = "mkdir"
  /\ \E ok \in BOOLEAN :
       recv' = IF ok THEN [recv EXCEPT !.pc = "archive", !.tmp = TRUE, !.made = TRUE]
               ELSE [recv EXCEPT !.pc = "returned", !.ret = "mkdir error"]
  /\ RecvFrame

\* lines 73-86: "git archive | tar -x" into tmpDir; its failures are
\* returned, and so is nil when no HandlerFunc is registered
HandleArchive ==
  /\ recv.pc = "archive"
  /\ \E res \in {"ok", "damaged", "failed"} :
       recv' = IF res = "damaged"
               THEN ReturnDeferred(recv, "Error: repository might be empty!")
               ELSE IF res = "failed" THEN ReturnDeferred(recv, "cant archive repo")
               ELSE IF recv.handler = "none" THEN ReturnDeferred(recv, "nil")
               ELSE [recv EXCEPT !.pc = "handler"]
  /\ RecvFrame

\* lines 82-84: r.HandlerFunc(hook, tmpDir) and the return of its result
HandleCallback ==
  /\ recv.pc = "handler"
  /\ recv' = ReturnDeferred([recv EXCEPT !.handled = TRUE], recv.handler)
  /\ RecvFrame

\* a Receiver with any settings is given any hook input. handler is "none"
\* without a HandlerFunc and otherwise what the HandlerFunc returns; tmp is
\* whether tmpDir exists, made whether MkdirAll has made it, handled whether
\* the HandlerFunc has been called.
InitRecv ==
  /\ ParserOff
  /\ CtlIdle
  /\ SessIdle
  /\ SconnIdle /\ HookFsIdle /\ ForceIdle
  /\ objects = {}
  /\ initCalls = <<>>
  /\ \E in \in HookInputs, m \in BOOLEAN, d \in BOOLEAN,
        h \in {"none", "nil", "handler error"} :
       recv = [input |-> in, MainOnly |-> m, Debug |-> d, handler |-> h,
               pc |-> "start", hook |-> NoHook, ret |-> "none",
               tmp |-> FALSE, made |-> FALSE, handled |-> FALSE]

NextRecv ==
  \/ HandleRead
  \/ HandleMkdir
  \/ HandleArchive
  \/ HandleCallback

SpecRecv == InitRecv /\ [][NextRecv]_vars

\* the hook input of the call names a reference other than refs/heads/main
NonMainPush ==
  /\ ReadHookInput(recv.input).err = ""
  /\ ReadHookInput(recv.input).Ref # MainRef

\* C15: with MainOnly, a push to a reference other than refs/heads/main makes
\* Handle return "cant push to non-main branch" without having made a
\* temporary directory or called the HandlerFunc; and without Debug no
\* temporary directory of the call exists once Handle has returned, whatever
\* it returned.
C15_PolicyAndCleanup ==
  /\ (recv.MainOnly /\ NonMainPush) =>
        /\ ~recv.made /\ ~recv.tmp /\ ~recv.handled
        /\ recv.pc \in {"start", "returned"}
        /\ recv.pc = "returned" => recv.ret = "cant push to non-main branch"
  /\ (recv.pc = "returned" /\ ~recv.Debug) => ~recv.tmp

\* C15 witness: a MainOnly receiver has refused a push to refs/heads/dev
C15_Witness ==
  /\ recv.MainOnly /\ ~recv.Debug
  /\ recv.pc = "returned"
  /\ recv.hook.Ref = "refs/heads/dev"
  /\ recv.ret = "cant push to non-main branch"

(***************************************************************************)
(* Force-push detection (receiver.go: IsForcePush)                          *)
(***************************************************************************)
\* the most commits in the repository of a run
MaxCommits == 3

\* commits are numbered from 1; ZeroSHA, the id of no commit, is 0
ZeroSHA == 0

Commits == 1..MaxCommits

\* the commit graphs: each commit's parents are earlier commits
Graphs == {g \in [Commits -> SUBSET Commits] : \A c \in Commits : \A p \in g[c] : p < c}

\* the ancestors of commit c in graph g, c included
RECURSIVE Ancestors(_, _)
Ancestors(g, c) == {c} \cup UNION {Ancestors(g, p) : p \in g[c]}

\* "git merge-base a b": the common ancestors that are not an ancestor of
\* another common ancestor; git prints one of them, and exits with status 1
\* and no output when there is none
MergeBases(g, a, b) ==
  LET common == Ancestors(g, a) \cap Ancestors(g, b) IN
  {c \in common : \A d \in common : c \in Ancestors(g, d) => d = c}

ForceFrame == UNCHANGED <<parseVars, fsVars, ctlVars, sessVars, sconn, hookFs, recv>>

\* IsForcePush(hook): false without running git when either id is ZeroSHA;
\* an error when git merge-base fails; otherwise whether the merge base
\* differs from OldRev. ran is whether git was run.
IsForcePush ==
  /\ force.pc = "start"
  /\ IF force.OldRev = ZeroSHA \/ force.NewRev = ZeroSHA
     THEN force' = [force EXCEPT !.pc = "done", !.res = FALSE, !.err = "nil"]
     ELSE LET bases == MergeBases(force.graph, force.OldRev, force.NewRev) IN
          IF bases = {}
          THEN force' = [force EXCEPT !.pc = "done", !.ran = TRUE, !.res = FALSE,
                                      !.err = "git merge base failed"]
          ELSE \E base \in bases :
                 force' = [force EXCEPT !.pc = "done", !.ran = TRUE,
                                        !.res = (base # force.OldRev), !.err = "nil"]
  /\ ForceFrame

\* a repository with any commit graph, and an update of a reference from
\* any commit or none to any commit or none
InitForce ==
  /\ ParserOff
  /\ CtlIdle
  /\ SessIdle
  /\ SconnIdle /\ HookFsIdle /\ RecvIdle
  /\ objects = {}
  /\ initCalls = <<>>
  /\ \E g \in Graphs, old \in Commits \cup {ZeroSHA}, new \in Commits \cup {ZeroSHA} :
       force = [graph |-> g, OldRev |-> old, NewRev |-> new, pc |-> "start",
                ran |-> FALSE, res |-> FALSE, err |-> "none"]

NextForce == IsForcePush

SpecForce == InitForce /\ [][NextForce]_vars

\* C16 as claimed: IsForcePush returns false without running git when
\* either id is ZeroSHA, and for two commits it returns true exactly when
\* the new tip is not a descendant of the old tip.
C16_ForceIffNotDescendant ==
  force.pc = "done" =>
     IF force.OldRev = ZeroSHA \/ force.NewRev = ZeroSHA
     THEN ~force.res /\ ~force.ran
     ELSE force.res = (force.OldRev \notin Ancestors(force.graph, force.NewRev))

(***************************************************************************)
(* Properties of rejected requests and of the splicing                      *)
(***************************************************************************)
\* the command of an exec payload as the client wrote it, after the length
Command(payload) == Drop(payload, 4)

\* what a session that rejected its request with the line msg has done
Rejected(s, msg) ==
  /\ sess[s].pc = "closed"
  /\ sess[s].chan = <<msg, "close">>
  /\ sess[s].authRes = "none"
  /\ sess[s].init = "none"
  /\ sess[s].child = "none"

\* C17 as claimed: an exec request whose command does not parse is answered
\* with "Invalid command." and a request of another type with "Unsupported
\* request type."; in both cases the channel is then closed, and Authorize
\* has not been called, no repository created and no child started.
C17_RejectedRequests ==
  \A s \in Sessions :
     /\ (sess[s].req = "exec" /\ ParseGitCommand(Command(sess[s].payload)).err # "")
           => Rejected(s, "Invalid command.\r\n")
     /\ sess[s].req = "other" => Rejected(s, "Unsupported request type.\r\n")

\* some step of the child of s or of the copies of its output can be taken
CanStep(s) ==
  ENABLED (ChildWriteOut(s) \/ ChildWriteErr(s) \/ ChildExit(s)
             \/ CopyOut(s) \/ CopyErr(s) \/ WaitChild(s))

\* C19 as claimed: the child and the copies of its stdout and stderr never
\* block each other: as long as the session of a started child has not
\* ended, the child or a copy can take a step, whatever the child writes and
\* in whatever order (so that the splicing completes and the channel is
\* closed).
C19_SplicingNeverBlocks ==
  \A s \in Sessions :
     (sess[s].child # "none" /\ sess[s].pc # "closed" /\ ~SessCrashed) => CanStep(s)

(***************************************************************************)
(* Concurrent Listen and Stop (ssh.go)                                      *)
(***************************************************************************)
\* two goroutines call Listen and Stop on one server at any time
NextRace ==
  \E t \in Threads :
     \/ ListenBegin(t)
     \/ ListenBind(t)
     \/ StopBegin(t)
     \/ StopClear(t)

SpecRace == InitCtl /\ [][NextRace]_vars

\* C18 as claimed: Listen and Stop act as mutually exclusive steps: when no
\* call is in progress every open listener is the stored one, and between
\* two Listen calls that returned nil a Stop has returned (of Listen calls
\* made together at most one binds).
C18_ListenStopExclusive ==
  /\ (\A t \in Threads : pc[t] = "idle") => open \subseteq {listener}
  /\ \A i, j \in 1..Len(hist) :
       (i < j /\ hist[i].op = "Listen" /\ hist[i].val = "nil"
              /\ hist[j].op = "Listen" /\ hist[j].val = "nil") =>
          \E k \in (i + 1)..(j - 1) : hist[k].op = "Stop"

=============================================================================
